---- MODULE Spec2Model ----
(***************************************************************************)
(* Expense tracker (src/main.js, the spreadsheet-linked version from line  *)
(* 690 on) and its Google Apps Script endpoint (src/unnamed/part_000).     *)
(*                                                                         *)
(* JavaScript strings are modelled as sequences of one-character strings,  *)
(* so that trim, parseInt, toString(36), substr and string comparison are  *)
(* computed rather than assumed.  JavaScript numbers, NaN and null are     *)
(* tagged values [t, v].                                                   *)
(***************************************************************************)
EXTENDS Integers, Sequences, FiniteSets, TLC

\* ------------------------------------------------------------------ bounds
\* Largest number of records the local store holds before the add form is
\* no longer exercised.
MaxRecords == 2
\* Largest number of requests the page sends (the count of fetch calls) when
\* sync is enabled from the start.
MaxRequests == 2
\* The same when the settings are changed freely between the requests.
MaxMirrored == 1

\* ------------------------------------------------------- JavaScript values
Num(n) == [t |-> "number", v |-> n]
NaN == [t |-> "NaN", v |-> 0]
Null == [t |-> "null", v |-> 0]

\* JSON.stringify followed by JSON.parse of a number: NaN is written as null.
JSONValue(x) == IF x.t = "NaN" THEN Null ELSE x

JSONRecord(r) == [r EXCEPT !.amount = JSONValue(@)]

JSONRecords(rs) == [i \in 1..Len(rs) |-> JSONRecord(rs[i])]

\* String.prototype.trim on a character sequence.
IsSpace(c) == c = " "

RECURSIVE TrimLeft(_)
TrimLeft(s) ==
    IF s # <<>> /\ IsSpace(Head(s)) THEN TrimLeft(Tail(s)) ELSE s

RECURSIVE TrimRight(_)
TrimRight(s) ==
    IF s # <<>> /\ IsSpace(s[Len(s)]) THEN TrimRight(SubSeq(s, 1, Len(s) - 1)) ELSE s

Trim(s) == TrimRight(TrimLeft(s))

\* The digits of radix 36, in order; Digits36[d + 1] is the digit of value d.
Digits36 ==
    << "0", "1", "2", "3", "4", "5", "6", "7", "8", "9", "a", "b", "c", "d",
       "e", "f", "g", "h", "i", "j", "k", "l", "m", "n", "o", "p", "q", "r",
       "s", "t", "u", "v", "w", "x", "y", "z" >>

\* Number.prototype.toString(36) of a natural number.
RECURSIVE toString36(_)
toString36(n) ==
    IF n < Len(Digits36)
    THEN << Digits36[n + 1] >>
    ELSE toString36(n \div Len(Digits36)) \o << Digits36[(n % Len(Digits36)) + 1] >>

DecimalDigits == { Digits36[i] : i \in 1..10 }

DigitValue(c) == CHOOSE d \in 0..9 : Digits36[d + 1] = c

RECURSIVE DigitsPrefix(_)
DigitsPrefix(s) ==
    IF s # <<>> /\ Head(s) \in DecimalDigits
    THEN << Head(s) >> \o DigitsPrefix(Tail(s))
    ELSE <<>>

RECURSIVE DecimalValue(_)
DecimalValue(ds) ==
    IF ds = <<>> THEN 0
    ELSE 10 * DecimalValue(SubSeq(ds, 1, Len(ds) - 1)) + DigitValue(ds[Len(ds)])

\* parseInt(string): leading white space is skipped, an optional sign is read,
\* then the longest prefix of decimal digits; NaN when there is no digit.
parseInt(s) ==
    LET t == TrimLeft(s)
        signed == t # <<>> /\ Head(t) \in {"+", "-"}
        u == IF signed THEN Tail(t) ELSE t
        ds == DigitsPrefix(u)
    IN  IF ds = <<>> THEN NaN
        ELSE IF signed /\ Head(t) = "-" THEN Num(0 - DecimalValue(ds))
        ELSE Num(DecimalValue(ds))

\* x || '' on a string.
OrEmpty(s) == IF s = <<>> THEN <<>> ELSE s

\* --------------------------------------------------------------- the data
D0101 == << "2", "0", "2", "4", "-", "0", "1", "-", "0", "1" >>
D0102 == << "2", "0", "2", "4", "-", "0", "1", "-", "0", "2" >>

\* Stand-ins for the seeded category names of initializeData.
Shokuhi == << "s", "h", "o", "k", "u" >>
Kotsu == << "k", "o", "t", "s", "u" >>
Konetsuhi == << "k", "o", "n", "e", "t", "s", "u" >>
Sonota == << "s", "o", "n", "o", "t", "a" >>

DefaultCategories == << Shokuhi, Kotsu, Konetsuhi, Sonota >>

ALL == << "A", "L", "L" >>

DefaultFilters == [from |-> <<>>, to |-> <<>>, category |-> ALL, paymentMethod |-> ALL]

Cash == << "c", "a", "s", "h" >>
Card == << "c", "a", "r", "d" >>

\* What the forms hand to addExpense and updateExpense.
InputLunch ==
    [date |-> D0102, category |-> Shokuhi, paymentMethod |-> Cash,
     amount |-> << "1", "0", "0" >>, memo |-> << "l", "u", "n", "c", "h" >>]

InputTrain ==
    [date |-> D0101, category |-> Kotsu, paymentMethod |-> Card,
     amount |-> << "7", ".", "5" >>, memo |-> <<>>]

InputBadAmount ==
    [date |-> D0102, category |-> Shokuhi, paymentMethod |-> Card,
     amount |-> << "a", "b", "c" >>, memo |-> <<>>]

InputNoAmount ==
    [date |-> D0102, category |-> Shokuhi, paymentMethod |-> Card,
     amount |-> <<>>, memo |-> <<>>]

NoInput ==
    [date |-> <<>>, category |-> <<>>, paymentMethod |-> <<>>,
     amount |-> <<>>, memo |-> <<>>]

ExpenseInputs == { InputLunch, InputTrain, InputBadAmount, InputNoAmount }

\* Values of Date.now() and of Math.random().toString(36).
Timestamps == { 35, 36 }
RandomStrings == { << "0" >>, << "0", ".", "a" >> }

\* String.prototype.substr(2).
Substr2(s) == SubSeq(s, 3, Len(s))

\* generateId: Date.now().toString(36) + Math.random().toString(36).substr(2)
generateId(now, random) == toString36(now) \o Substr2(random)

Ids == { generateId(n, r) : n \in Timestamps, r \in RandomStrings }

\* The smaller input sets of the specifications that send requests.
SyncInputs == { InputLunch, InputBadAmount }
SyncRandomStrings == { << "0", ".", "a" >> }
SyncIds == { generateId(n, r) : n \in Timestamps, r \in SyncRandomStrings }

NoRecord ==
    [id |-> <<>>, date |-> <<>>, category |-> <<>>, paymentMethod |-> <<>>,
     amount |-> Null, memo |-> <<>>]

\* The gasUrlInput field and the stored endpoint.
Endpoint == << "u", "r", "l" >>
UrlInputs == { <<>>, << " " >>, << " ", "u", "r", "l" >> }

\* --------------------------------------------------------------- the state
VARIABLES
    localStorage,         \* the persisted namespaces, each [has, val]
    GAS_WEB_APP_URL,      \* main.js:694
    SPREADSHEET_ENABLED,  \* main.js:699
    sheet,                \* the rows of the remote sheet, row 1 the header
    pending,              \* the requests in flight, in the order they were sent
    served,               \* the request the endpoint served last, and its answer
    page,                 \* "unloaded", "loading" (init awaits the pull), "ready"
    now,                  \* the value Date.now() gave last, 0 before any call
    fetchCount,           \* the number of fetch calls made so far
    budget,               \* the number of fetch calls a behaviour is followed for
    storageFull,          \* localStorage.setItem throws (quota exceeded)
    last                  \* the handler that ran last, its arguments and results

vars ==
    << localStorage, GAS_WEB_APP_URL, SPREADSHEET_ENABLED, sheet, pending, served,
       page, now, fetchCount, budget, storageFull, last >>

\* ------------------------------------------------------------ localStorage
StorageKeys == { "records", "categories", "filters", "gasUrl", "spreadsheetEnabled" }

\* A namespace with no persisted value (localStorage.getItem gives null).
NoItem(key) ==
    [has |-> FALSE,
     val |-> CASE key = "filters" -> DefaultFilters
               [] key = "spreadsheetEnabled" -> FALSE
               [] OTHER -> <<>>]

EmptyStorage == [key \in StorageKeys |-> NoItem(key)]

\* getStorageData(key, defaultValue): data ? JSON.parse(data) : defaultValue
getStorageData(ls, key, defaultValue) ==
    IF ls[key].has THEN ls[key].val ELSE defaultValue

\* What JSON.stringify writes and JSON.parse reads back for the value of a key.
JSONOf(key, value) == IF key = "records" THEN JSONRecords(value) ELSE value

\* setStorageData(key, value): setItem throws when the quota is exceeded; the
\* exception is caught, the user is alerted and the stored item is untouched.
setStorageData(ls, key, value) ==
    IF storageFull THEN ls
    ELSE [ls EXCEPT ![key] = [has |-> TRUE, val |-> JSONOf(key, value)]]

\* localStorage.removeItem(key)
removeItem(ls, key) == [ls EXCEPT ![key] = NoItem(key)]

\* A faulty initializeData: the defaults written over whatever is persisted.
initializeDataSeedingAll(ls) ==
    LET ls1 == setStorageData(ls, "categories", DefaultCategories)
        ls2 == setStorageData(ls1, "records", <<>>)
        ls3 == setStorageData(ls2, "filters", DefaultFilters)
    IN  [storage |-> ls3,
         GAS_WEB_APP_URL |-> getStorageData(ls3, "gasUrl", <<>>),
         SPREADSHEET_ENABLED |-> getStorageData(ls3, "spreadsheetEnabled", FALSE)]

\* initializeData: every namespace read with its default and written back,
\* then the two sync flags read from their namespaces (lines 772-773).
initializeData(ls) ==
    LET ls1 == setStorageData(ls, "categories",
                              getStorageData(ls, "categories", DefaultCategories))
        ls2 == setStorageData(ls1, "records", getStorageData(ls1, "records", <<>>))
        ls3 == setStorageData(ls2, "filters",
                              getStorageData(ls2, "filters", DefaultFilters))
    IN  [storage |-> ls3,
         GAS_WEB_APP_URL |-> getStorageData(ls3, "gasUrl", <<>>),
         SPREADSHEET_ENABLED |-> getStorageData(ls3, "spreadsheetEnabled", FALSE)]

\* ------------------------------------------------------------ Record Store
\* Array.prototype.findIndex(record => record.id === id); 0 stands for -1.
RECURSIVE findIndexFrom(_, _, _)
findIndexFrom(records, id, i) ==
    IF i > Len(records) THEN 0
    ELSE IF records[i].id = id THEN i
    ELSE findIndexFrom(records, id, i + 1)

findIndex(records, id) == findIndexFrom(records, id, 1)

\* Array.prototype.filter(record => record.id !== id)
RECURSIVE filterOutId(_, _)
filterOutId(records, id) ==
    IF records = <<>> THEN <<>>
    ELSE IF Head(records).id # id
         THEN << Head(records) >> \o filterOutId(Tail(records), id)
         ELSE filterOutId(Tail(records), id)

\* The object addExpense builds (lines 950-957).
newExpenseOf(expenseData, id) ==
    [id |-> id,
     date |-> expenseData.date,
     category |-> expenseData.category,
     paymentMethod |-> expenseData.paymentMethod,
     amount |-> parseInt(expenseData.amount),
     memo |-> OrEmpty(expenseData.memo)]

\* The object updateExpense builds (lines 978-985): the spread keeps the id.
updatedExpenseOf(record, expenseData) ==
    [record EXCEPT
        !.date = expenseData.date,
        !.category = expenseData.category,
        !.paymentMethod = expenseData.paymentMethod,
        !.amount = parseInt(expenseData.amount),
        !.memo = OrEmpty(expenseData.memo)]

\* The records array of updateExpense after the assignment to records[index].
updatedRecords(records, index, expenseData) ==
    [records EXCEPT ![index] = updatedExpenseOf(records[index], expenseData)]

\* The validation of the expenseForm submit handler (lines 1425-1428).
FormIsValid(expenseData) ==
    /\ expenseData.date # <<>>
    /\ expenseData.category # <<>>
    /\ expenseData.paymentMethod # <<>>
    /\ expenseData.amount # <<>>

\* ------------------------------------------------------- values returned
RetRecord(r) == [t |-> "record", rec |-> r]
RetNull == [t |-> "null", rec |-> NoRecord]
RetUndefined == [t |-> "undefined", rec |-> NoRecord]
RetTrue == [t |-> "true", rec |-> NoRecord]
RetFalse == [t |-> "false", rec |-> NoRecord]
RetNone == [t |-> "none", rec |-> NoRecord]
\* The promise of an async function rejects: an await in it threw.
RetThrows == [t |-> "throws", rec |-> NoRecord]

\* What a bridge function returns: true, false, null or a record array.
BridgeTrue == [t |-> "true", recs |-> <<>>]
BridgeFalse == [t |-> "false", recs |-> <<>>]
BridgeNull == [t |-> "null", recs |-> <<>>]
BridgeRecords(rs) == [t |-> "records", recs |-> rs]
BridgeNone == [t |-> "none", recs |-> <<>>]

\* ----------------------------------------------------------- Remote Bridge
NoRequest ==
    [method |-> "none", action |-> "none", record |-> NoRecord, id |-> <<>>,
     records |-> <<>>]

GetRequest == [NoRequest EXCEPT !.method = "GET"]

\* The body JSON.stringify writes for each action.
PostRequest(action, record, id, records) ==
    [method |-> "POST", action |-> action, record |-> JSONRecord(record),
     id |-> id, records |-> JSONRecords(records)]

\* A faulty guard: the endpoint is not looked at.
BridgeDisabledByFlag == ~SPREADSHEET_ENABLED

\* The guard every bridge function starts with:
\* if (!SPREADSHEET_ENABLED || !GAS_WEB_APP_URL) return null / false
BridgeDisabled == ~SPREADSHEET_ENABLED \/ GAS_WEB_APP_URL = <<>>

\* Each bridge function up to its first await: either the value it returns at
\* once, or the request it issues with fetch.
fetchRecordsFromSpreadsheet ==
    IF BridgeDisabled
    THEN [sent |-> FALSE, ret |-> BridgeNull, req |-> NoRequest]
    ELSE [sent |-> TRUE, ret |-> BridgeNone, req |-> GetRequest]

addRecordToSpreadsheet(record) ==
    IF BridgeDisabled
    THEN [sent |-> FALSE, ret |-> BridgeFalse, req |-> NoRequest]
    ELSE [sent |-> TRUE, ret |-> BridgeNone,
          req |-> PostRequest("add", record, <<>>, <<>>)]

updateRecordInSpreadsheet(record) ==
    IF BridgeDisabled
    THEN [sent |-> FALSE, ret |-> BridgeFalse, req |-> NoRequest]
    ELSE [sent |-> TRUE, ret |-> BridgeNone,
          req |-> PostRequest("update", record, <<>>, <<>>)]

deleteRecordFromSpreadsheet(id) ==
    IF BridgeDisabled
    THEN [sent |-> FALSE, ret |-> BridgeFalse, req |-> NoRequest]
    ELSE [sent |-> TRUE, ret |-> BridgeNone,
          req |-> PostRequest("delete", NoRecord, id, <<>>)]

syncRecordsToSpreadsheet(records) ==
    IF BridgeDisabled
    THEN [sent |-> FALSE, ret |-> BridgeFalse, req |-> NoRequest]
    ELSE [sent |-> TRUE, ret |-> BridgeNone,
          req |-> PostRequest("sync", NoRecord, <<>>, records)]

\* loadFromSpreadsheet up to its first await: its own guard, then fetchRecords.
loadFromSpreadsheet ==
    IF BridgeDisabled
    THEN [sent |-> FALSE, ret |-> BridgeFalse, req |-> NoRequest]
    ELSE fetchRecordsFromSpreadsheet

\* A call the mutation handlers skip: if (SPREADSHEET_ENABLED) await ...
NotCalled == [sent |-> FALSE, ret |-> BridgeNone, req |-> NoRequest]

\* The mirror call of addExpense, updateExpense and deleteExpense.
MirrorAdd(newExpense) ==
    IF SPREADSHEET_ENABLED THEN addRecordToSpreadsheet(newExpense) ELSE NotCalled

\* A faulty mirror call: updateExpense mirrors with the function of addExpense.
MirrorUpdateAsAdd(record) == MirrorAdd(record)

MirrorUpdate(record) ==
    IF SPREADSHEET_ENABLED THEN updateRecordInSpreadsheet(record) ELSE NotCalled

\* A faulty mirror call: deleteExpense posts the deletion itself whenever an
\* endpoint is stored.
MirrorDeleteByEndpoint(id) ==
    IF GAS_WEB_APP_URL # <<>>
    THEN [sent |-> TRUE, ret |-> BridgeNone,
          req |-> PostRequest("delete", NoRecord, id, <<>>)]
    ELSE NotCalled

MirrorDelete(id) ==
    IF SPREADSHEET_ENABLED THEN deleteRecordFromSpreadsheet(id) ELSE NotCalled

\* ------------------------------------------- the Apps Script endpoint
\* A value of a cell that is not a number: the header of the amount column.
HeaderCell == [t |-> "string", v |-> 0]

\* setupSheet: the header row id, date, category, paymentMethod, amount, memo.
HeaderRow ==
    << << "i", "d" >>, << "d", "a", "t", "e" >>,
       << "c", "a", "t", "e", "g", "o", "r", "y" >>,
       << "p", "a", "y", "m", "e", "n", "t", "M", "e", "t", "h", "o", "d" >>,
       HeaderCell, << "m", "e", "m", "o" >> >>

\* The row addRecord, updateRecord and syncRecords write for a record.
RowOf(record) ==
    << record.id, record.date, record.category, record.paymentMethod,
       record.amount, OrEmpty(record.memo) >>

\* The record doGet builds from a row.
RecordOf(row) ==
    [id |-> row[1], date |-> row[2], category |-> row[3],
     paymentMethod |-> row[4], amount |-> row[5], memo |-> OrEmpty(row[6])]

\* The first data row (from row 2 on) whose first cell is id; 0 when none.
RECURSIVE findRowFrom(_, _, _)
findRowFrom(sh, id, i) ==
    IF i > Len(sh) THEN 0
    ELSE IF sh[i][1] = id THEN i
    ELSE findRowFrom(sh, id, i + 1)

findRow(sh, id) == findRowFrom(sh, id, 2)

\* sheet.deleteRow(row)
deleteRow(sh, row) == SubSeq(sh, 1, row - 1) \o SubSeq(sh, row + 1, Len(sh))

\* Each of these gives the sheet afterwards and whether the function threw.
addRecord(sh, record) ==
    [sheet |-> Append(sh, RowOf(record)), threw |-> FALSE, synced |-> 0]

\* A faulty updateRecord: a record that is not found is appended.
updateRecordOrAppend(sh, record) ==
    LET row == findRow(sh, record.id)
    IN  IF row # 0
        THEN [sheet |-> [sh EXCEPT ![row] = RowOf(record)], threw |-> FALSE,
              synced |-> 0]
        ELSE [sheet |-> Append(sh, RowOf(record)), threw |-> FALSE, synced |-> 0]

updateRecord(sh, record) ==
    LET row == findRow(sh, record.id)
    IN  IF row # 0
        THEN [sheet |-> [sh EXCEPT ![row] = RowOf(record)], threw |-> FALSE,
              synced |-> 0]
        ELSE [sheet |-> sh, threw |-> TRUE, synced |-> 0]

deleteRecord(sh, id) ==
    LET row == findRow(sh, id)
    IN  IF row # 0
        THEN [sheet |-> deleteRow(sh, row), threw |-> FALSE, synced |-> 0]
        ELSE [sheet |-> sh, threw |-> TRUE, synced |-> 0]

\* A faulty sync: the rows of the sheet are not deleted first.
syncRecordsOverwriting(sh, records) ==
    LET headed == IF Len(sh) = 0 THEN << HeaderRow >> ELSE sh
        written == [i \in 1..Len(records) |-> RowOf(records[i])]
    IN  [sheet |-> SubSeq(headed, 1, 1) \o written
                       \o SubSeq(headed, Len(records) + 2, Len(headed)),
         threw |-> FALSE, synced |-> Len(records)]

syncRecords(sh, records) ==
    LET lastRow == Len(sh)
        cleared == IF lastRow > 1 THEN SubSeq(sh, 1, 1) ELSE sh
        headed == IF lastRow = 0 THEN << HeaderRow >> ELSE cleared
    IN  [sheet |-> headed \o [i \in 1..Len(records) |-> RowOf(records[i])],
         threw |-> FALSE, synced |-> Len(records)]

\* The JSON the endpoint answers with.
Response(success, records, synced) ==
    [success |-> success, records |-> records, synced |-> synced]

\* doGet: the rows from the second on whose id cell is not empty.
RECURSIVE rowsToRecords(_, _)
rowsToRecords(data, i) ==
    IF i > Len(data) THEN <<>>
    ELSE IF data[i][1] # <<>>
         THEN << RecordOf(data[i]) >> \o rowsToRecords(data, i + 1)
         ELSE rowsToRecords(data, i + 1)

\* A faulty doGet: the rows are read from the first on.
doGetFromFirstRow(sh, serviceFails) ==
    IF serviceFails
    THEN [sheet |-> sh, response |-> Response(FALSE, <<>>, 0)]
    ELSE [sheet |-> sh, response |-> Response(TRUE, rowsToRecords(sh, 1), 0)]

\* serviceFails: getSpreadsheet or a sheet call throws, caught by the handler.
doGet(sh, serviceFails) ==
    IF serviceFails
    THEN [sheet |-> sh, response |-> Response(FALSE, <<>>, 0)]
    ELSE [sheet |-> sh, response |-> Response(TRUE, rowsToRecords(sh, 2), 0)]

doPost(sh, req, serviceFails) ==
    IF serviceFails
    THEN [sheet |-> sh, response |-> Response(FALSE, <<>>, 0)]
    ELSE LET done == CASE req.action = "add" -> addRecord(sh, req.record)
                       [] req.action = "update" -> updateRecord(sh, req.record)
                       [] req.action = "delete" -> deleteRecord(sh, req.id)
                       [] req.action = "sync" -> syncRecords(sh, req.records)
                       [] OTHER -> [sheet |-> sh, threw |-> TRUE, synced |-> 0]
         IN  [sheet |-> done.sheet,
              response |-> Response(~done.threw, <<>>, done.synced)]

\* The endpoint serving one request.
Serve(sh, req, serviceFails) ==
    IF req.method = "GET" THEN doGet(sh, serviceFails)
    ELSE doPost(sh, req, serviceFails)

\* ------------------------------------------------- how a request can end
\* "ok": served, the answer parsed.     "serviceError": served, the endpoint's
\* catch answers success=false.         "fetchRejected": never served, fetch
\* rejects.   "unparsable": never served, the answer is no JSON and
\* response.json() rejects.             "replyLost": served, fetch rejects.
Outcomes == { "ok", "serviceError", "fetchRejected", "unparsable", "replyLost" }

IsServed(outcome) == outcome \in { "ok", "serviceError", "replyLost" }

\* The client sees an exception inside the bridge function's try block.
ClientThrows(outcome) == outcome \in { "fetchRejected", "unparsable", "replyLost" }

\* An exception leaving a function.
BridgeThrows == [t |-> "throws", recs |-> <<>>]

\* The try block of the four push functions: return data.success.
postTry(outcome, response) ==
    IF ClientThrows(outcome) THEN BridgeThrows
    ELSE IF response.success THEN BridgeTrue ELSE BridgeFalse

\* The push functions after their awaits: the catch block returns false.
postResult(outcome, response) ==
    IF postTry(outcome, response) = BridgeThrows THEN BridgeFalse
    ELSE postTry(outcome, response)

\* The try block of fetchRecordsFromSpreadsheet (lines 790-795).
fetchTry(outcome, response) ==
    IF ClientThrows(outcome) THEN BridgeThrows
    ELSE IF response.success THEN BridgeRecords(response.records) ELSE BridgeNull

\* A faulty fetch: data.records is returned whatever data.success says.
fetchResultUnchecked(outcome, response) ==
    IF ClientThrows(outcome) THEN BridgeNull
    ELSE BridgeRecords(response.records)

\* fetchRecordsFromSpreadsheet after its awaits: the catch block returns null.
fetchResult(outcome, response) ==
    IF fetchTry(outcome, response) = BridgeThrows THEN BridgeNull
    ELSE fetchTry(outcome, response)

\* A faulty test: whatever was fetched is installed.
loadInstallsAnything(fetched) == TRUE

\* loadFromSpreadsheet after its await: if (records) { setStorageData ... }.
\* An array, empty or not, is truthy; null is not.
loadInstalls(fetched) == fetched.t = "records"

\* ------------------------------------------------------------ the handlers
\* A faulty addExpense: the record is not stored before the mirror call.
addExpenseUnstored(expenseData, id) ==
    [storage |-> localStorage,
     ret |-> RetRecord(newExpenseOf(expenseData, id)),
     mirror |-> MirrorAdd(newExpenseOf(expenseData, id))]

\* addExpense up to its await: the store written, the value it will return
\* and the mirror call.
addExpense(expenseData, id) ==
    LET records == getStorageData(localStorage, "records", <<>>)
        newExpense == newExpenseOf(expenseData, id)
    IN  [storage |-> setStorageData(localStorage, "records",
                                    Append(records, newExpense)),
         ret |-> RetRecord(newExpense),
         mirror |-> MirrorAdd(newExpense)]

\* updateExpense up to its await.
updateExpense(id, expenseData) ==
    LET records == getStorageData(localStorage, "records", <<>>)
        index == findIndex(records, id)
    IN  IF index # 0
        THEN LET updated == updatedRecords(records, index, expenseData)
             IN  [storage |-> setStorageData(localStorage, "records", updated),
                  ret |-> RetRecord(updated[index]),
                  mirror |-> MirrorUpdate(updated[index])]
        ELSE [storage |-> localStorage, ret |-> RetNull, mirror |-> NotCalled]

\* deleteExpense up to its await.
deleteExpense(id) ==
    LET records == getStorageData(localStorage, "records", <<>>)
        filteredRecords == filterOutId(records, id)
    IN  [storage |-> setStorageData(localStorage, "records", filteredRecords),
         ret |-> RetUndefined,
         mirror |-> MirrorDelete(id)]

\* syncToSpreadsheet up to its await: its own guard, then the bridge call.
syncToSpreadsheet ==
    IF BridgeDisabled THEN NotCalled
    ELSE syncRecordsToSpreadsheet(getStorageData(localStorage, "records", <<>>))

\* The guard of init before the pull (line 1574).
InitPulls == SPREADSHEET_ENABLED /\ GAS_WEB_APP_URL # <<>>

\* A faulty return: the handler returns its record only when the mirror call
\* returned true.
settledReturnIfMirrored(h, bridge) ==
    IF h.op = "loadFromSpreadsheet"
    THEN IF loadInstalls(bridge) THEN RetTrue ELSE RetFalse
    ELSE IF bridge = BridgeTrue THEN h.ret ELSE RetNull

\* What an async handler returns once its mirror call has settled: the value
\* it computed before the await, whatever the bridge call returned; an
\* exception of the bridge call would leave the handler through its await.
settledReturn(h, bridge) ==
    IF h.op = "loadFromSpreadsheet"
    THEN IF loadInstalls(bridge) THEN RetTrue ELSE RetFalse
    ELSE IF bridge = BridgeThrows THEN RetThrows ELSE h.ret

\* A faulty resumption: an addition whose mirror call did not succeed is
\* taken back from the store.
settledStorageTakingBack(h, bridge) ==
    IF h.op = "loadFromSpreadsheet" /\ loadInstalls(bridge)
    THEN setStorageData(localStorage, "records", bridge.recs)
    ELSE IF h.op = "addExpense" /\ bridge # BridgeTrue
    THEN setStorageData(localStorage, "records",
                        filterOutId(getStorageData(localStorage, "records", <<>>),
                                    h.ret.rec.id))
    ELSE localStorage

\* A faulty pull: the fetched records are added to the stored ones.
settledStorageAppending(h, bridge) ==
    IF h.op = "loadFromSpreadsheet" /\ loadInstalls(bridge)
    THEN setStorageData(localStorage, "records",
                        getStorageData(localStorage, "records", <<>>)
                            \o bridge.recs)
    ELSE localStorage

\* The local store once a handler's bridge call has settled: only the pull
\* writes, and only when it fetched a record array.
settledStorage(h, bridge) ==
    IF h.op = "loadFromSpreadsheet" /\ loadInstalls(bridge)
    THEN setStorageData(localStorage, "records", bridge.recs)
    ELSE localStorage

\* ---------------------------------------------------------- the categories
getCategories(ls) == getStorageData(ls, "categories", DefaultCategories)

includes(seq, x) == \E i \in 1..Len(seq) : seq[i] = x

\* A faulty addCategory: the new name is put in front of the stored ones.
addCategoryInFront(categoryName) ==
    LET categories == getStorageData(localStorage, "categories", <<>>)
        trimmedName == Trim(categoryName)
    IN  IF categoryName = <<>> \/ trimmedName = <<>>
        THEN [storage |-> localStorage, ret |-> RetFalse]
        ELSE IF includes(categories, trimmedName)
        THEN [storage |-> localStorage, ret |-> RetFalse]
        ELSE [storage |-> setStorageData(localStorage, "categories",
                                         << trimmedName >> \o categories),
              ret |-> RetTrue]

\* A faulty addCategory: the stored names are compared with the name as typed.
addCategoryUntrimmed(categoryName) ==
    LET categories == getStorageData(localStorage, "categories", <<>>)
        trimmedName == Trim(categoryName)
    IN  IF categoryName = <<>> \/ trimmedName = <<>>
        THEN [storage |-> localStorage, ret |-> RetFalse]
        ELSE IF includes(categories, categoryName)
        THEN [storage |-> localStorage, ret |-> RetFalse]
        ELSE [storage |-> setStorageData(localStorage, "categories",
                                         Append(categories, trimmedName)),
              ret |-> RetTrue]

\* addCategory: the store it leaves and the value it returns.
addCategory(categoryName) ==
    LET categories == getStorageData(localStorage, "categories", <<>>)
        trimmedName == Trim(categoryName)
    IN  IF categoryName = <<>> \/ trimmedName = <<>>
        THEN [storage |-> localStorage, ret |-> RetFalse]
        ELSE IF includes(categories, trimmedName)
        THEN [storage |-> localStorage, ret |-> RetFalse]
        ELSE [storage |-> setStorageData(localStorage, "categories",
                                         Append(categories, trimmedName)),
              ret |-> RetTrue]

\* categories.filter(cat => cat !== categoryName)
RECURSIVE filterOutCategory(_, _)
filterOutCategory(categories, categoryName) ==
    IF categories = <<>> THEN <<>>
    ELSE IF Head(categories) # categoryName
         THEN << Head(categories) >> \o filterOutCategory(Tail(categories), categoryName)
         ELSE filterOutCategory(Tail(categories), categoryName)

\* records.some(record => record.category === categoryName)
isUsed(records, categoryName) ==
    \E i \in 1..Len(records) : records[i].category = categoryName

\* A faulty deleteCategory: the records of the category go with it.
deleteCategoryCascading(categoryName, confirmed) ==
    LET records == getStorageData(localStorage, "records", <<>>)
        categories == getStorageData(localStorage, "categories", <<>>)
    IN  IF isUsed(records, categoryName) /\ ~confirmed
        THEN [storage |-> localStorage, ret |-> RetFalse, asked |-> TRUE]
        ELSE [storage |->
                  setStorageData(
                      setStorageData(localStorage, "categories",
                                     filterOutCategory(categories, categoryName)),
                      "records",
                      SelectSeq(records, LAMBDA r : r.category # categoryName)),
              ret |-> RetTrue, asked |-> isUsed(records, categoryName)]

\* A faulty deleteCategory: a name in use is removed without asking.
deleteCategoryUnasked(categoryName, confirmed) ==
    LET records == getStorageData(localStorage, "records", <<>>)
        categories == getStorageData(localStorage, "categories", <<>>)
    IN  [storage |-> setStorageData(localStorage, "categories",
                                    filterOutCategory(categories, categoryName)),
         ret |-> RetTrue, asked |-> FALSE]

\* deleteCategory, confirmed being the answer to its confirm dialog, should it
\* open one: the store it leaves, the value it returns, whether it asked.
deleteCategory(categoryName, confirmed) ==
    LET records == getStorageData(localStorage, "records", <<>>)
        categories == getStorageData(localStorage, "categories", <<>>)
    IN  IF isUsed(records, categoryName) /\ ~confirmed
        THEN [storage |-> localStorage, ret |-> RetFalse, asked |-> TRUE]
        ELSE [storage |-> setStorageData(localStorage, "categories",
                                         filterOutCategory(categories, categoryName)),
              ret |-> RetTrue, asked |-> isUsed(records, categoryName)]

saveFilters(ls, filters) == setStorageData(ls, "filters", filters)

\* ---------------------------------------------------- filtering and sorting
\* The characters of dates and generated ids, in ascending order of their
\* UTF-16 code units; the collation of localeCompare ranks them the same way.
CodeUnits ==
    << " ", "-", "." >> \o Digits36

CodeUnit(c) == CHOOSE i \in 1..Len(CodeUnits) : CodeUnits[i] = c

\* a < b on strings: the first differing code unit decides, a proper prefix
\* is smaller.
RECURSIVE StringLess(_, _)
StringLess(a, b) ==
    IF b = <<>> THEN FALSE
    ELSE IF a = <<>> THEN TRUE
    ELSE IF Head(a) # Head(b) THEN CodeUnit(Head(a)) < CodeUnit(Head(b))
    ELSE StringLess(Tail(a), Tail(b))

\* a.localeCompare(b): negative, zero or positive.
localeCompare(a, b) ==
    IF a = b THEN 0 ELSE IF StringLess(a, b) THEN 0 - 1 ELSE 1

\* Faulty filter steps: the from bound excludes its own day.
passesFiltersAfterFrom(record, filters) ==
    /\ filters.from # <<>> => StringLess(filters.from, record.date)
    /\ filters.to # <<>> => ~StringLess(filters.to, record.date)
    /\ filters.category # ALL => record.category = filters.category
    /\ filters.paymentMethod # ALL => record.paymentMethod = filters.paymentMethod

\* The four filter steps of getFilteredRecords (lines 1097-1112).
passesFilters(record, filters) ==
    /\ filters.from # <<>> => ~StringLess(record.date, filters.from)
    /\ filters.to # <<>> => ~StringLess(filters.to, record.date)
    /\ filters.category # ALL => record.category = filters.category
    /\ filters.paymentMethod # ALL => record.paymentMethod = filters.paymentMethod

RECURSIVE filterRecords(_, _)
filterRecords(records, filters) ==
    IF records = <<>> THEN <<>>
    ELSE IF passesFilters(Head(records), filters)
         THEN << Head(records) >> \o filterRecords(Tail(records), filters)
         ELSE filterRecords(Tail(records), filters)

\* A faulty comparator: records of one day are left as they are stored.
compareRecordsByDate(a, b) == localeCompare(b.date, a.date)

\* The comparator of the sort (lines 1115-1120).
compareRecords(a, b) ==
    IF a.date # b.date
    THEN localeCompare(b.date, a.date)
    ELSE localeCompare(b.id, a.id)

\* Array.prototype.sort is stable: an element goes behind the last element
\* the comparator does not put after it.
RECURSIVE insertRecord(_, _)
insertRecord(sorted, x) ==
    IF sorted = <<>> THEN << x >>
    ELSE IF compareRecords(sorted[Len(sorted)], x) > 0
         THEN insertRecord(SubSeq(sorted, 1, Len(sorted) - 1), x)
                  \o << sorted[Len(sorted)] >>
         ELSE sorted \o << x >>

RECURSIVE sortRecords(_)
sortRecords(records) ==
    IF records = <<>> THEN <<>>
    ELSE insertRecord(sortRecords(SubSeq(records, 1, Len(records) - 1)),
                      records[Len(records)])

getFilteredRecords(ls) ==
    LET records == getStorageData(ls, "records", <<>>)
        filters == getStorageData(ls, "filters", DefaultFilters)
    IN  sortRecords(filterRecords(records, filters))

\* -------------------------------------------------------------- the totals
\* a + b on numbers and null: null counts as 0, NaN makes NaN.
Plus(a, b) ==
    IF a.t = "NaN" \/ b.t = "NaN" THEN NaN
    ELSE Num((IF a.t = "number" THEN a.v ELSE 0)
             + (IF b.t = "number" THEN b.v ELSE 0))

\* records.reduce((sum, record) => sum + record.amount, 0)
RECURSIVE reduceAmounts(_, _)
reduceAmounts(records, sum) ==
    IF records = <<>> THEN sum
    ELSE reduceAmounts(Tail(records), Plus(sum, Head(records).amount))

\* A faulty total: the amount of the last record.
calculateTotalOfLast(records) ==
    IF records = <<>> THEN Num(0)
    ELSE Plus(Num(0), records[Len(records)].amount)

calculateTotal(records) == reduceAmounts(records, Num(0))

\* The position of a key among the entries of an object; 0 when absent.
RECURSIVE entryIndexFrom(_, _, _)
entryIndexFrom(entries, key, i) ==
    IF i > Len(entries) THEN 0
    ELSE IF entries[i].key = key THEN i
    ELSE entryIndexFrom(entries, key, i + 1)

entryIndex(entries, key) == entryIndexFrom(entries, key, 1)

\* One round of the forEach of the two summaries:
\* if (!summary[key]) summary[key] = 0; summary[key] += amount.
\* The entries are kept in the order the keys were created.
addToSummary(entries, key, amount) ==
    LET i == entryIndex(entries, key)
    IN  IF i = 0
        THEN Append(entries, [key |-> key, sum |-> Plus(Num(0), amount)])
        ELSE [entries EXCEPT ![i].sum =
                 Plus(IF @ \in { Num(0), NaN } THEN Num(0) ELSE @, amount)]

RECURSIVE calculateSummaryFrom(_, _, _)
calculateSummaryFrom(records, field, entries) ==
    IF records = <<>> THEN entries
    ELSE calculateSummaryFrom(Tail(records), field,
                              addToSummary(entries, Head(records)[field],
                                           Head(records).amount))

calculateCategorySummary(records) ==
    calculateSummaryFrom(records, "category", <<>>)

calculatePaymentMethodSummary(records) ==
    calculateSummaryFrom(records, "paymentMethod", <<>>)

\* A property key that is an array index: decimal digits without a leading
\* zero.  Object.entries lists these keys first, in ascending numeric order,
\* and the other keys after them in the order they were created.
IsArrayIndex(key) ==
    /\ key # <<>>
    /\ \A i \in 1..Len(key) : key[i] \in DecimalDigits
    /\ Len(key) > 1 => key[1] # "0"

RECURSIVE insertIndexEntry(_, _)
insertIndexEntry(sorted, e) ==
    IF sorted = <<>> THEN << e >>
    ELSE IF DecimalValue(sorted[Len(sorted)].key) > DecimalValue(e.key)
         THEN insertIndexEntry(SubSeq(sorted, 1, Len(sorted) - 1), e)
                  \o << sorted[Len(sorted)] >>
         ELSE sorted \o << e >>

RECURSIVE ObjectEntriesFrom(_, _, _)
ObjectEntriesFrom(entries, indexed, named) ==
    IF entries = <<>> THEN indexed \o named
    ELSE IF IsArrayIndex(Head(entries).key)
         THEN ObjectEntriesFrom(Tail(entries),
                                insertIndexEntry(indexed, Head(entries)), named)
         ELSE ObjectEntriesFrom(Tail(entries), indexed,
                                Append(named, Head(entries)))

ObjectEntries(entries) == ObjectEntriesFrom(entries, <<>>, <<>>)

\* .sort((a, b) => b[1] - a[1]) of renderSummary, a stable sort.
RECURSIVE insertEntry(_, _)
insertEntry(sorted, e) ==
    IF sorted = <<>> THEN << e >>
    ELSE IF e.sum.v - sorted[Len(sorted)].sum.v > 0
         THEN insertEntry(SubSeq(sorted, 1, Len(sorted) - 1), e)
                  \o << sorted[Len(sorted)] >>
         ELSE sorted \o << e >>

RECURSIVE sortEntries(_)
sortEntries(entries) ==
    IF entries = <<>> THEN <<>>
    ELSE insertEntry(sortEntries(SubSeq(entries, 1, Len(entries) - 1)),
                     entries[Len(entries)])

\* What renderExpenseList, updateTotalAmount and renderSummary put on the page.
Render(ls) ==
    LET records == getFilteredRecords(ls)
    IN  [shown |-> TRUE,
         list |-> records,
         total |-> calculateTotal(records),
         byCategory |-> sortEntries(ObjectEntries(calculateCategorySummary(records))),
         byPaymentMethod |->
             sortEntries(ObjectEntries(calculatePaymentMethodSummary(records)))]

\* A handler that has not rendered (yet).
NoView ==
    [shown |-> FALSE, list |-> <<>>, total |-> Num(0), byCategory |-> <<>>,
     byPaymentMethod |-> <<>>]

\* ------------------------------------------------------------- the actions
Call(op, id, input, ret, mirror) ==
    [op |-> op, of |-> "none", id |-> id, input |-> input, ret |-> ret,
     sent |-> mirror.sent, outcome |-> "none", bridge |-> mirror.ret,
     view |-> NoView, name |-> <<>>, asked |-> FALSE, confirmed |-> FALSE,
     alerted |-> FALSE]

\* The handlers that call setStorageData: all but an update that found no
\* record, a category handler that returned false and the push.
Writes(op, ret) ==
    CASE op \in { "addExpense", "deleteExpense", "init", "resetAll",
                  "applyFilter", "resetFilter", "saveSettings" } -> TRUE
      [] op = "updateExpense" -> ret.t = "record"
      [] op \in { "addCategory", "deleteCategory" } -> ret = RetTrue
      [] OTHER -> FALSE

\* The alert of setStorageData's catch block (lines 737-740) was shown.
Alerted(call) == [call EXCEPT !.alerted = storageFull /\ Writes(call.op, call.ret)]

\* The handlers render once their call has returned: the submit, delete,
\* filter and reset handlers and init always, the edit handler when the
\* update returned a record, none when its await threw.
Renders(op, ret) ==
    CASE op \in { "addExpense", "deleteExpense" } -> ret # RetThrows
      [] op = "updateExpense" -> ret.t = "record"
      [] op \in { "init", "loadFromSpreadsheet", "resetAll", "applyFilter",
                  "resetFilter" } -> TRUE
      [] OTHER -> FALSE

ViewAfter(op, ret, ls) == IF Renders(op, ret) THEN Render(ls) ELSE NoView

NoCall == Call("none", <<>>, NoInput, RetNone, NotCalled)

Handler(op, ret, mirror) ==
    [req |-> mirror.req, live |-> TRUE, op |-> op, ret |-> ret]

\* A handler's synchronous part: the store it leaves and the request it sends.
Run(op, id, input, done) ==
    /\ done.mirror.sent => fetchCount < budget
    /\ fetchCount' = IF done.mirror.sent THEN fetchCount + 1 ELSE fetchCount
    /\ localStorage' = done.storage
    /\ pending' = IF done.mirror.sent
                  THEN Append(pending, Handler(op, done.ret, done.mirror))
                  ELSE pending
    /\ last' = [Alerted(Call(op, id, input, done.ret, done.mirror)) EXCEPT
                    !.view = IF done.mirror.sent THEN NoView
                             ELSE ViewAfter(op, done.ret, done.storage)]
    /\ UNCHANGED << GAS_WEB_APP_URL, SPREADSHEET_ENABLED, sheet, served, page,
                    budget, storageFull >>

NoService == [req |-> NoRequest, response |-> Response(FALSE, <<>>, 0)]

NothingServed == [req |-> NoRequest, response |-> Response(FALSE, <<>>, 0),
                  before |-> NoService]

Init ==
    /\ storageFull = FALSE
    /\ fetchCount = 0
    /\ now = 0
    /\ budget = MaxMirrored
    /\ localStorage = EmptyStorage
    /\ GAS_WEB_APP_URL = <<>>
    /\ SPREADSHEET_ENABLED = FALSE
    /\ sheet = << HeaderRow >>
    /\ pending = <<>>
    /\ served = NothingServed
    /\ page = "unloaded"
    /\ last = NoCall

\* init (DOMContentLoaded), also a reload: the handlers of the page before are
\* gone, their requests may still be served.
PageLoad ==
    LET data == initializeData(localStorage)
        orphaned == [i \in 1..Len(pending) |-> [pending[i] EXCEPT !.live = FALSE]]
    IN  /\ localStorage' = data.storage
        /\ GAS_WEB_APP_URL' = data.GAS_WEB_APP_URL
        /\ SPREADSHEET_ENABLED' = data.SPREADSHEET_ENABLED
        /\ InitPulls' => fetchCount < budget
        /\ fetchCount' = IF InitPulls' THEN fetchCount + 1 ELSE fetchCount
        /\ pending' = IF InitPulls'
                      THEN Append(orphaned,
                                  Handler("loadFromSpreadsheet", RetNone,
                                          loadFromSpreadsheet'))
                      ELSE orphaned
        /\ page' = IF InitPulls' THEN "loading" ELSE "ready"
        /\ last' = [Alerted(Call("init", <<>>, NoInput, RetNone,
                                 IF InitPulls' THEN loadFromSpreadsheet'
                                 ELSE NotCalled))
                       EXCEPT !.view = IF InitPulls' THEN NoView
                                       ELSE ViewAfter("init", RetNone, data.storage)]
        /\ UNCHANGED << sheet, served, now, budget, storageFull >>

\* The expenseForm submit handler: validation, then addExpense.
\* Date.now() does not go back between two calls.
SubmitExpense(expenseData, dateNow, random) ==
    /\ page = "ready"
    /\ IF FormIsValid(expenseData)
       THEN /\ Len(getStorageData(localStorage, "records", <<>>)) < MaxRecords
            /\ dateNow >= now
            /\ now' = dateNow
            /\ Run("addExpense", generateId(dateNow, random), expenseData,
                   addExpense(expenseData, generateId(dateNow, random)))
       ELSE /\ last' = Call("rejected", <<>>, expenseData, RetNone, NotCalled)
            /\ UNCHANGED << localStorage, GAS_WEB_APP_URL, SPREADSHEET_ENABLED,
                            sheet, pending, served, page, now, fetchCount, budget,
                            storageFull >>

\* The editForm submit handler: no validation, updateExpense.
SubmitEdit(id, expenseData) ==
    /\ page = "ready"
    /\ UNCHANGED now
    /\ Run("updateExpense", id, expenseData, updateExpense(id, expenseData))

\* A delete button, the confirmation accepted: deleteExpense.
ClickDelete(id) ==
    /\ page = "ready"
    /\ UNCHANGED now
    /\ Run("deleteExpense", id, NoInput, deleteExpense(id))

\* The syncToSpreadsheetBtn handler.
ClickSync ==
    /\ page = "ready"
    /\ UNCHANGED now
    /\ Run("syncToSpreadsheet", <<>>, NoInput,
           [storage |-> localStorage, ret |-> RetUndefined,
            mirror |-> syncToSpreadsheet])

\* The resetAllBtn handler, the confirmation accepted.
ResetAll ==
    LET removed == removeItem(removeItem(removeItem(localStorage, "records"),
                                         "categories"), "filters")
        data == initializeData(removed)
    IN  /\ page = "ready"
        /\ localStorage' = data.storage
        /\ GAS_WEB_APP_URL' = data.GAS_WEB_APP_URL
        /\ SPREADSHEET_ENABLED' = data.SPREADSHEET_ENABLED
        /\ last' = [Alerted(Call("resetAll", <<>>, NoInput, RetNone, NotCalled))
                       EXCEPT !.view = ViewAfter("resetAll", RetNone, data.storage)]
        /\ UNCHANGED << sheet, pending, served, page, now, fetchCount, budget,
                       storageFull >>

\* saveSpreadsheetSettings: the flags set from the form, then persisted.
SaveSettings(urlInput, checked) ==
    /\ page = "ready"
    /\ GAS_WEB_APP_URL' = Trim(urlInput)
    /\ SPREADSHEET_ENABLED' = checked
    /\ localStorage' = setStorageData(
                           setStorageData(localStorage, "gasUrl", Trim(urlInput)),
                           "spreadsheetEnabled", checked)
    /\ last' = Alerted(Call("saveSettings", <<>>, NoInput, RetNone, NotCalled))
    /\ UNCHANGED << sheet, pending, served, page, now, fetchCount, budget,
                       storageFull >>

\* The applyFilterBtn handler: the form's filter saved, the page rendered.
\* The category select offers ALL and the stored categories.
ApplyFilter(filterData) ==
    /\ page = "ready"
    /\ filterData.category = ALL
           \/ includes(getCategories(localStorage), filterData.category)
    /\ localStorage' = saveFilters(localStorage, filterData)
    /\ last' = [Alerted(Call("applyFilter", <<>>, NoInput, RetNone, NotCalled))
                   EXCEPT !.view = ViewAfter("applyFilter", RetNone, localStorage')]
    /\ UNCHANGED << GAS_WEB_APP_URL, SPREADSHEET_ENABLED, sheet, pending, served,
                    page, now, fetchCount, budget, storageFull >>

\* The resetFilterBtn handler.
ResetFilter ==
    /\ page = "ready"
    /\ localStorage' = saveFilters(localStorage, DefaultFilters)
    /\ last' = [Alerted(Call("resetFilter", <<>>, NoInput, RetNone, NotCalled))
                   EXCEPT !.view = ViewAfter("resetFilter", RetNone, localStorage')]
    /\ UNCHANGED << GAS_WEB_APP_URL, SPREADSHEET_ENABLED, sheet, pending, served,
                    page, now, fetchCount, budget, storageFull >>

\* The addCategoryBtn handler.
AddCategory(categoryName) ==
    LET done == addCategory(categoryName)
    IN  /\ page = "ready"
        /\ localStorage' = done.storage
        /\ last' = [Alerted(Call("addCategory", <<>>, NoInput, done.ret, NotCalled))
                       EXCEPT !.name = categoryName]
        /\ UNCHANGED << GAS_WEB_APP_URL, SPREADSHEET_ENABLED, sheet, pending,
                        served, page, now, fetchCount, budget, storageFull >>

\* A delete button of the category list, the handler's own confirmation
\* accepted: deleteCategory, which may ask again.
DeleteCategory(categoryName, confirmed) ==
    LET done == deleteCategory(categoryName, confirmed)
    IN  /\ page = "ready"
        /\ includes(getCategories(localStorage), categoryName)
        /\ localStorage' = done.storage
        /\ last' = [Alerted(Call("deleteCategory", <<>>, NoInput, done.ret,
                                  NotCalled))
                       EXCEPT !.name = categoryName, !.asked = done.asked,
                              !.confirmed = done.asked /\ confirmed]
        /\ UNCHANGED << GAS_WEB_APP_URL, SPREADSHEET_ENABLED, sheet, pending,
                        served, page, now, fetchCount, budget, storageFull >>

\* The expenseForm submit handler with a category its select offers.
SubmitListed(expenseData, dateNow, random) ==
    /\ includes(getCategories(localStorage), expenseData.category)
    /\ SubmitExpense(expenseData, dateNow, random)

\* The editForm submit handler with a category its select offers.
EditListed(id, expenseData) ==
    /\ includes(getCategories(localStorage), expenseData.category)
    /\ SubmitEdit(id, expenseData)

RemoveAt(seq, i) == SubSeq(seq, 1, i - 1) \o SubSeq(seq, i + 1, Len(seq))

\* A request in flight ends: the endpoint serves it or not, and the handler
\* that awaits it, if its page is still there, resumes.
Settle(i, outcome) ==
    LET h == pending[i]
        answer == Serve(sheet, h.req, outcome = "serviceError")
        bridge == IF h.req.method = "GET"
                  THEN fetchResult(outcome, answer.response)
                  ELSE postResult(outcome, answer.response)
    IN  /\ sheet' = IF IsServed(outcome) THEN answer.sheet ELSE sheet
        /\ served' = IF IsServed(outcome)
                     THEN [req |-> h.req, response |-> answer.response,
                           before |-> [req |-> served.req,
                                       response |-> served.response]]
                     ELSE served
        /\ pending' = RemoveAt(pending, i)
        /\ IF h.live
           THEN /\ localStorage' = settledStorage(h, bridge)
                /\ page' = IF h.op = "loadFromSpreadsheet" THEN "ready" ELSE page
                /\ last' = [op |-> "settled", of |-> h.op, id |-> h.req.id,
                            input |-> NoInput, ret |-> settledReturn(h, bridge),
                            sent |-> FALSE, outcome |-> outcome, bridge |-> bridge,
                            view |-> ViewAfter(h.op, settledReturn(h, bridge),
                                               settledStorage(h, bridge)),
                            name |-> <<>>, asked |-> FALSE,
                            confirmed |-> FALSE,
                            alerted |-> storageFull /\ h.op = "loadFromSpreadsheet"
                                           /\ loadInstalls(bridge)]
           ELSE /\ last' = [op |-> "served", of |-> h.op, id |-> h.req.id,
                            input |-> NoInput, ret |-> RetNone,
                            sent |-> FALSE, outcome |-> outcome, bridge |-> BridgeNone,
                            view |-> NoView, name |-> <<>>, asked |-> FALSE,
                            confirmed |-> FALSE, alerted |-> FALSE]
                /\ UNCHANGED << localStorage, page >>
        /\ UNCHANGED << GAS_WEB_APP_URL, SPREADSHEET_ENABLED, now, fetchCount, budget,
                       storageFull >>

\* saveSpreadsheetSettings with a form that leaves the bridge disabled.
SaveSettingsOff(urlInput, checked) ==
    /\ ~(checked /\ Trim(urlInput) # <<>>)
    /\ SaveSettings(urlInput, checked)

\* ------------------------------------------------------ the specifications
\* The whole program from its first run, the settings changed freely.
Next ==
    \/ PageLoad
    \/ \E x \in SyncInputs, n \in Timestamps, r \in SyncRandomStrings :
          SubmitExpense(x, n, r)
    \/ \E id \in SyncIds, x \in SyncInputs : SubmitEdit(id, x)
    \/ \E id \in SyncIds : ClickDelete(id)
    \/ ClickSync
    \/ ResetAll
    \/ \E u \in UrlInputs, c \in BOOLEAN : SaveSettings(u, c)
    \/ \E i \in 1..Len(pending), o \in Outcomes : Settle(i, o)

Spec == Init /\ [][Next]_vars

\* The program with the bridge disabled throughout: no request is ever sent.
NextLocal ==
    \/ PageLoad
    \/ \E x \in ExpenseInputs, n \in Timestamps, r \in RandomStrings :
          SubmitExpense(x, n, r)
    \/ \E id \in Ids, x \in ExpenseInputs : SubmitEdit(id, x)
    \/ \E id \in Ids : ClickDelete(id)
    \/ ClickSync
    \/ ResetAll
    \/ \E u \in UrlInputs, c \in BOOLEAN : SaveSettingsOff(u, c)

SpecLocal == Init /\ [][NextLocal]_vars

\* What an earlier session left: nothing, or a record added and mirrored to
\* the sheet.
EarlierRecord == newExpenseOf(InputLunch, generateId(35, << "0", ".", "a" >>))

NoSession == [records |-> <<>>, rows |-> <<>>, now |-> 0]

EarlierSessions ==
    { NoSession,
      [records |-> << EarlierRecord >>, rows |-> << RowOf(EarlierRecord) >>,
       now |-> 35] }

\* The program of a user who saved the settings in an earlier session
\* (PageLoad, then SaveSettings) and leaves them alone.
Started(urls, flags, sessions, requests) ==
    /\ storageFull = FALSE
    /\ fetchCount = 0
    /\ budget = requests
    /\ \E url \in urls, enabled \in flags, earlier \in sessions :
          /\ localStorage =
                 setStorageData(
                     setStorageData(
                         setStorageData(initializeData(EmptyStorage).storage,
                                        "records", earlier.records),
                         "gasUrl", url),
                     "spreadsheetEnabled", enabled)
          /\ GAS_WEB_APP_URL = url
          /\ SPREADSHEET_ENABLED = enabled
          /\ sheet = << HeaderRow >> \o earlier.rows
          /\ now = earlier.now
    /\ pending = <<>>
    /\ served = NothingServed
    /\ page = "ready"
    /\ last = NoCall

InitSync == Started({ <<>>, Endpoint }, BOOLEAN, EarlierSessions, MaxRequests)

NextSync ==
    \/ PageLoad
    \/ \E x \in SyncInputs, n \in Timestamps, r \in SyncRandomStrings :
          SubmitExpense(x, n, r)
    \/ \E id \in SyncIds, x \in SyncInputs : SubmitEdit(id, x)
    \/ \E id \in SyncIds : ClickDelete(id)
    \/ ClickSync
    \/ ResetAll
    \/ \E i \in 1..Len(pending), o \in Outcomes : Settle(i, o)

SpecSync == InitSync /\ [][NextSync]_vars

\* The same with the bridge enabled, one more request followed, and a clock
\* that has moved on at every call of Date.now(): no two generated ids share
\* their timestamp.
InitFresh == Started({ Endpoint }, { TRUE }, { NoSession }, MaxRequests + 1)

SubmitExpenseLater(expenseData, dateNow, random) ==
    /\ dateNow > now
    /\ SubmitExpense(expenseData, dateNow, random)

NextFresh ==
    \/ PageLoad
    \/ \E x \in SyncInputs, n \in Timestamps, r \in SyncRandomStrings :
          SubmitExpenseLater(x, n, r)
    \/ \E id \in SyncIds, x \in SyncInputs : SubmitEdit(id, x)
    \/ \E id \in SyncIds : ClickDelete(id)
    \/ ClickSync
    \/ ResetAll
    \/ \E i \in 1..Len(pending), o \in Outcomes : Settle(i, o)

SpecFresh == InitFresh /\ [][NextFresh]_vars

\* A request in flight is served and answered, its handler resumes; the one
\* issued first is the one delivered first.
Deliver ==
    /\ pending # <<>>
    /\ Settle(1, "ok")

\* The program of one page with the bridge enabled, the sheet holding what
\* the store holds, every request delivered and answered in the order of
\* sending.
InitOrdered == Started({ Endpoint }, { TRUE }, EarlierSessions, MaxRequests + 1)

NextOrdered ==
    \/ \E x \in SyncInputs, n \in Timestamps, r \in SyncRandomStrings :
          SubmitExpense(x, n, r)
    \/ \E id \in SyncIds, x \in SyncInputs : SubmitEdit(id, x)
    \/ \E id \in SyncIds : ClickDelete(id)
    \/ Deliver

SpecOrdered == InitOrdered /\ [][NextOrdered]_vars

\* A category whose name is an array index, and an expense of it that costs
\* what the lunch costs.
Seven == << "7" >>

InputSeven ==
    [date |-> D0101, category |-> Seven, paymentMethod |-> Cash,
     amount |-> << "1", "0", "0" >>, memo |-> <<>>]

ViewInputs == { InputLunch, InputTrain, InputSeven, InputBadAmount }

\* The edit form with its date field cleared.
InputUndated == [InputTrain EXCEPT !.date = <<>>]

\* What the filter form hands to saveFilters.
FilterInputs ==
    { [DefaultFilters EXCEPT !.from = D0102],
      [DefaultFilters EXCEPT !.to = D0101],
      [DefaultFilters EXCEPT !.from = D0101, !.to = D0101, !.category = Shokuhi],
      [DefaultFilters EXCEPT !.paymentMethod = Card] }

\* The program with the bridge disabled, its records, its filter and a new
\* category.
NextView ==
    \/ PageLoad
    \/ \E x \in ViewInputs, n \in Timestamps, r \in SyncRandomStrings :
          SubmitListed(x, n, r)
    \/ \E id \in SyncIds, x \in ViewInputs \cup { InputUndated } : EditListed(id, x)
    \/ \E id \in SyncIds : ClickDelete(id)
    \/ \E f \in FilterInputs : ApplyFilter(f)
    \/ ResetFilter
    \/ AddCategory(Seven)
    \/ ResetAll

SpecView == Init /\ [][NextView]_vars

\* What the newCategoryInput field holds.
CategoryInputs ==
    { <<>>, << " ", " " >>, Seven, << " ", "7", " " >>, << " " >> \o Kotsu }

CategoryExpenses == { InputTrain, InputSeven }

\* The program with the bridge disabled, its categories and the records that
\* use them.
NextCategories ==
    \/ PageLoad
    \/ \E x \in CategoryExpenses, n \in Timestamps, r \in SyncRandomStrings :
          SubmitListed(x, n, r)
    \/ \E id \in SyncIds : ClickDelete(id)
    \/ \E name \in CategoryInputs : AddCategory(name)
    \/ \E name \in { Kotsu, Sonota, Seven }, confirmed \in BOOLEAN :
          DeleteCategory(name, confirmed)
    \/ ResetAll

SpecCategories == Init /\ [][NextCategories]_vars

\* The quota of the origin is reached: from now on setItem throws.
QuotaExceeded ==
    /\ ~storageFull
    /\ storageFull' = TRUE
    /\ UNCHANGED << localStorage, GAS_WEB_APP_URL, SPREADSHEET_ENABLED, sheet,
                    pending, served, page, now, fetchCount, budget, last >>

\* The program of one page with the bridge enabled and a storage that may be
\* full.
NextQuota ==
    \/ \E x \in SyncInputs, n \in Timestamps, r \in SyncRandomStrings :
          SubmitExpense(x, n, r)
    \/ \E id \in SyncIds, x \in SyncInputs : SubmitEdit(id, x)
    \/ \E id \in SyncIds : ClickDelete(id)
    \/ \E name \in { Seven, Kotsu } : AddCategory(name)
    \/ \E confirmed \in BOOLEAN : DeleteCategory(Sonota, confirmed)
    \/ QuotaExceeded
    \/ Deliver

\* The state an earlier session left with the bridge enabled.
InitEnabled == Started({ Endpoint }, { TRUE }, EarlierSessions, MaxRequests)

SpecQuota == InitEnabled /\ [][NextQuota]_vars

\* The program from its first run, its settings, its bridge calls and a
\* storage that may get full.
NextSettings ==
    \/ PageLoad
    \/ \E n \in Timestamps, r \in SyncRandomStrings : SubmitExpense(InputLunch, n, r)
    \/ \E id \in SyncIds : ClickDelete(id)
    \/ ClickSync
    \/ \E u \in UrlInputs, c \in BOOLEAN : SaveSettings(u, c)
    \/ \E i \in 1..Len(pending), o \in Outcomes : Settle(i, o)
    \/ QuotaExceeded

SpecSettings == Init /\ [][NextSettings]_vars

\* The oldest request in flight is answered, or fetch rejects.
DeliverOrLose ==
    /\ pending # <<>>
    /\ \E outcome \in { "ok", "fetchRejected" } : Settle(1, outcome)

\* The program with the bridge enabled, its records, its categories, its
\* filter and its startup pull, every request answered or lost in turn.
NextFrame ==
    \/ PageLoad
    \/ \E n \in Timestamps, r \in SyncRandomStrings : SubmitExpense(InputLunch, n, r)
    \/ \E id \in SyncIds : SubmitEdit(id, InputBadAmount)
    \/ \E id \in SyncIds : ClickDelete(id)
    \/ AddCategory(Seven)
    \/ \E confirmed \in BOOLEAN : DeleteCategory(Shokuhi, confirmed)
    \/ ApplyFilter([DefaultFilters EXCEPT !.paymentMethod = Card])
    \/ ResetFilter
    \/ DeliverOrLose

SpecFrame == InitEnabled /\ [][NextFrame]_vars

\* ---------------------------------------------------------- the properties
\* getStorageData(STORAGE_KEYS.RECORDS, []): the records of the local store.
StoredRecords == getStorageData(localStorage, "records", <<>>)

\* The positions of the stored records that carry an id.
Holders(records, id) == { i \in 1..Len(records) : records[i].id = id }

\* C1: addExpense, given a date, a category, a payment method and an amount,
\* returns a record with a non-empty id that exactly one stored record
\* carries, and looking that id up in the store gives the date, category and
\* payment method of the input, its amount as an integer and its memo (empty
\* when none was given).
C1_AddThenLookup ==
    last.op = "addExpense" =>
        LET x == last.input
            id == last.ret.rec.id
            found == StoredRecords[findIndex(StoredRecords, id)]
        IN  /\ last.ret.t = "record"
            /\ id # <<>>
            /\ Cardinality(Holders(StoredRecords, id)) = 1
            /\ found.date = x.date
            /\ found.category = x.category
            /\ found.paymentMethod = x.paymentMethod
            /\ found.amount.t = "number"
            /\ found.amount = parseInt(x.amount)
            /\ found.memo = x.memo

\* C2: updateExpense(id, x) on a stored id puts x's date, category, payment
\* method, amount (as an integer) and memo into the first record with that
\* id, keeps its id and its position, returns it and leaves every other
\* record as it was; on an id that is not stored it returns null and leaves
\* the store as it was.
C2_UpdateFrame ==
    [][last'.op = "updateExpense" =>
          LET old == StoredRecords
              new == StoredRecords'
              x == last'.input
              i == findIndex(old, last'.id)
          IN  IF i # 0
              THEN /\ Len(new) = Len(old)
                   /\ new[i].id = old[i].id
                   /\ new[i].date = x.date
                   /\ new[i].category = x.category
                   /\ new[i].paymentMethod = x.paymentMethod
                   /\ new[i].amount.t = "number"
                   /\ new[i].amount = parseInt(x.amount)
                   /\ new[i].memo = x.memo
                   /\ \A j \in 1..Len(old) : j # i => new[j] = old[j]
                   /\ last'.ret = RetRecord(new[i])
              ELSE /\ last'.ret = RetNull
                   /\ localStorage' = localStorage]_vars

\* C3: deleteExpense(id) on a stored id removes exactly one record, the one
\* with that id, and keeps the others in their order; on an id that is not
\* stored it leaves the store as it was and returns something else than a
\* deletion that happened returns (undefined).
C3_DeleteOneOrNotFound ==
    [][last'.op = "deleteExpense" =>
          LET old == StoredRecords
              new == StoredRecords'
              i == findIndex(old, last'.id)
          IN  IF i # 0
              THEN /\ Len(new) = Len(old) - 1
                   /\ new = RemoveAt(old, i)
                   /\ last'.ret = RetUndefined
              ELSE /\ new = old
                   /\ last'.ret # RetUndefined]_vars

\* C4: no two records of the local store carry the same id, whatever
\* additions, updates, deletions, startup pulls and resets have run.
C4_UniqueIds ==
    \A i, j \in 1..Len(StoredRecords) :
        i # j => StoredRecords[i].id # StoredRecords[j].id

\* addExpense, updateExpense and deleteExpense.
LocalMutations == { "addExpense", "updateExpense", "deleteExpense" }

\* C5: while the enabled flag is false, addExpense, updateExpense and
\* deleteExpense send nothing: the number of requests made stays what it was
\* and no request is in flight for them, whatever the endpoint is.
C5_NoCallWhileDisabled ==
    [][(~SPREADSHEET_ENABLED /\ last'.op \in LocalMutations) =>
          /\ fetchCount' = fetchCount
          /\ pending' = pending
          /\ ~last'.sent]_vars

\* An update that found its record ran with the flag off and an endpoint set.
C5_Witness ==
    /\ ~SPREADSHEET_ENABLED
    /\ GAS_WEB_APP_URL = Endpoint
    /\ last.op = "updateExpense"
    /\ last.ret.t = "record"
    /\ fetchCount = 0

\* C6: with the flag on and an endpoint set, an addition, an update of a
\* stored id and a deletion of a stored id each send exactly one request, of
\* the matching kind: "add" with the record just stored, "update" with the
\* whole updated record, its id included, "delete" with the id.
C6_OneMatchingCall ==
    [][(/\ SPREADSHEET_ENABLED
        /\ GAS_WEB_APP_URL # <<>>
        /\ last'.op \in LocalMutations
        /\ last'.op # "addExpense" => findIndex(StoredRecords, last'.id) # 0) =>
          LET new == StoredRecords'
              req == pending'[Len(pending')].req
          IN  /\ fetchCount' = fetchCount + 1
              /\ Len(pending') = Len(pending) + 1
              /\ SubSeq(pending', 1, Len(pending)) = pending
              /\ req.method = "POST"
              /\ last'.op = "addExpense" =>
                    /\ req.action = "add"
                    /\ req.record = new[Len(new)]
              /\ last'.op = "updateExpense" =>
                    /\ req.action = "update"
                    /\ req.record.id = last'.id
                    /\ req.record = new[findIndex(new, last'.id)]
              /\ last'.op = "deleteExpense" =>
                    /\ req.action = "delete"
                    /\ req.id = last'.id]_vars

\* An update was mirrored after an addition was.
C6_Witness ==
    /\ last.op = "updateExpense"
    /\ last.sent
    /\ fetchCount = 2
    /\ pending # <<>>
    /\ pending[Len(pending)].req.action = "update"
    /\ pending[Len(pending)].req.record.id = last.id

\* C7: when the mirror call of an addition, an update or a deletion ends,
\* served or not, answered with success or failure or not answered at all,
\* the local store is what the handler wrote before the call and the handler
\* returns what it computed before the call.
C7_LocalResultKept ==
    [][(last'.op = "settled" /\ last'.of \in LocalMutations) =>
          /\ localStorage' = localStorage
          /\ \E i \in 1..Len(pending) :
                /\ pending' = RemoveAt(pending, i)
                /\ pending[i].live
                /\ pending[i].op = last'.of
                /\ last'.ret = pending[i].ret]_vars

\* An addition whose mirror call was rejected returned its record, which is
\* stored.
C7_Witness ==
    /\ last.op = "settled"
    /\ last.of = "addExpense"
    /\ last.outcome = "fetchRejected"
    /\ last.bridge = BridgeFalse
    /\ last.ret.t = "record"
    /\ findIndex(StoredRecords, last.ret.rec.id) # 0

\* What a bridge function gives when it returns without a request.
Unsent(ret) == [sent |-> FALSE, ret |-> ret, req |-> NoRequest]

\* C8: while the flag is off or the endpoint is empty, every bridge function
\* returns at once without a request (the fetch null, the others false), the
\* sync button leaves the local store alone, and no handler changes the
\* sheet or sends anything.
C8_DisabledBridgeIsNoOp ==
    [][(~SPREADSHEET_ENABLED \/ GAS_WEB_APP_URL = <<>>) =>
          /\ fetchRecordsFromSpreadsheet = Unsent(BridgeNull)
          /\ loadFromSpreadsheet = Unsent(BridgeFalse)
          /\ syncRecordsToSpreadsheet(StoredRecords) = Unsent(BridgeFalse)
          /\ \A i \in 1..Len(StoredRecords) :
                /\ addRecordToSpreadsheet(StoredRecords[i]) = Unsent(BridgeFalse)
                /\ updateRecordInSpreadsheet(StoredRecords[i]) = Unsent(BridgeFalse)
                /\ deleteRecordFromSpreadsheet(StoredRecords[i].id)
                       = Unsent(BridgeFalse)
          /\ last'.op = "syncToSpreadsheet" => localStorage' = localStorage
          /\ last'.op \notin { "settled", "served" } =>
                /\ sheet' = sheet
                /\ fetchCount' = fetchCount
                /\ pending' = pending
                /\ ~last'.sent]_vars

\* addExpense called addRecordToSpreadsheet with the flag on and no endpoint,
\* and got false.
C8_Witness ==
    /\ SPREADSHEET_ENABLED
    /\ GAS_WEB_APP_URL = <<>>
    /\ last.op = "addExpense"
    /\ last.bridge = BridgeFalse
    /\ ~last.sent
    /\ sheet = << HeaderRow >>

\* C9: fetchRecordsFromSpreadsheet never throws to its caller: when fetch
\* rejects, when the answer is no JSON and when the endpoint answers
\* success=false it returns null; it returns records, those of the answer,
\* only when the endpoint answered success=true.
C9_FetchReturnsNullOnFailure ==
    (last.op = "settled" /\ last.of = "loadFromSpreadsheet") =>
        /\ last.bridge # BridgeThrows
        /\ last.bridge.t \in { "records", "null" }
        /\ last.outcome # "ok" => last.bridge = BridgeNull
        /\ last.bridge.t = "records" =>
              /\ served.req.method = "GET"
              /\ served.response.success
              /\ last.bridge.recs = served.response.records

\* The startup pull got an answer that was no JSON: the fetch returned null
\* and the pull false.
C9_Witness ==
    /\ last.op = "settled"
    /\ last.of = "loadFromSpreadsheet"
    /\ last.outcome = "unparsable"
    /\ last.bridge = BridgeNull
    /\ last.ret = RetFalse

\* The members of a sequence.
Range(seq) == { seq[i] : i \in 1..Len(seq) }

\* The endpoint served a sync successfully and, next, the GET of a startup
\* pull whose handler got the answer.
SyncThenFetch ==
    /\ last.op = "settled"
    /\ last.of = "loadFromSpreadsheet"
    /\ last.outcome = "ok"
    /\ served.req.method = "GET"
    /\ served.before.req.action = "sync"
    /\ served.before.response.success

\* C10: when the endpoint serves a sync and next a GET, the records the GET
\* returns are, as a set, the records the sync pushed, whatever the sheet
\* held before, and the sync answered with synced = the number of records
\* pushed.
C10_SyncThenFetchRoundTrip ==
    SyncThenFetch =>
        /\ last.bridge.t = "records"
        /\ Range(last.bridge.recs) = Range(served.before.req.records)
        /\ served.before.response.synced = Len(served.before.req.records)

\* A sync that pushed one record was followed by a fetch.
C10_Witness ==
    /\ SyncThenFetch
    /\ Len(served.before.req.records) = 1
    /\ Len(last.bridge.recs) = 1

\* The startup pull has resumed with a fetched record array.
PullInstalled ==
    /\ last.op = "settled"
    /\ last.of = "loadFromSpreadsheet"
    /\ loadInstalls(last.bridge)

\* C11: once the pull has installed a fetched record sequence, the local
\* store holds exactly that sequence, in its order, and nothing of what it
\* held before (an empty sequence leaves it empty); installing the same
\* sequence again changes nothing.
C11_PullReplacesAll ==
    PullInstalled =>
        /\ StoredRecords = last.bridge.recs
        /\ setStorageData(localStorage, "records", last.bridge.recs) = localStorage

\* A pull installed a fetched sequence of one record.
C11_Witness ==
    /\ PullInstalled
    /\ Len(last.bridge.recs) = 1
    /\ StoredRecords = last.bridge.recs

StoredFilters == getStorageData(localStorage, "filters", DefaultFilters)

\* How often a value occurs in a sequence.
Occurrences(seq, x) == Cardinality({ i \in 1..Len(seq) : seq[i] = x })

\* A date yyyy-mm-dd as the number yyyymmdd; no date is 0.
DateNumber(date) == DecimalValue(SelectSeq(date, LAMBDA c : c \in DecimalDigits))

\* The records a filter asks for.
Wanted(record, filters) ==
    /\ filters.from = <<>> \/ DateNumber(record.date) >= DateNumber(filters.from)
    /\ filters.to = <<>> \/ DateNumber(record.date) <= DateNumber(filters.to)
    /\ filters.category = ALL \/ record.category = filters.category
    /\ filters.paymentMethod = ALL \/ record.paymentMethod = filters.paymentMethod

\* C12: the list a handler renders holds exactly the stored records whose
\* date is within the inclusive bounds of the stored filter (an empty bound
\* is open) and whose category and payment method are the filter's ("ALL"
\* admits every one): each as often as it is stored, no other record.
C12_FilteredExactly ==
    last.view.shown =>
        \A r \in Range(StoredRecords) \cup Range(last.view.list) :
            Occurrences(last.view.list, r) =
                IF Wanted(r, StoredFilters) THEN Occurrences(StoredRecords, r) ELSE 0

\* A record dated on the from bound is listed, an earlier one is not.
C12_Witness ==
    /\ last.view.shown
    /\ StoredFilters.from = D0102
    /\ Len(StoredRecords) = 2
    /\ Len(last.view.list) = 1
    /\ last.view.list[1].date = D0102

\* A sequence in another order.
Permuted(seq, p) == [i \in 1..Len(seq) |-> seq[p[i]]]

UniqueIds(records) ==
    \A i, j \in 1..Len(records) : records[i].id = records[j].id => i = j

\* C13: the rendered list is in descending order of date and, within a date,
\* of id; when the stored ids are pairwise distinct the list is the same in
\* whatever order the records are stored.
C13_SortedByDateThenId ==
    last.view.shown =>
        /\ \A i, j \in 1..Len(last.view.list) :
               i < j =>
                   \/ DateNumber(last.view.list[i].date)
                          > DateNumber(last.view.list[j].date)
                   \/ /\ last.view.list[i].date = last.view.list[j].date
                      /\ ~StringLess(last.view.list[i].id, last.view.list[j].id)
        /\ UniqueIds(StoredRecords) =>
               \A p \in Permutations(1..Len(StoredRecords)) :
                   sortRecords(filterRecords(Permuted(StoredRecords, p),
                                             StoredFilters))
                       = last.view.list

\* Two records of one day and of different ids are listed.
C13_Witness ==
    /\ last.view.shown
    /\ Len(last.view.list) = 2
    /\ last.view.list[1].date = last.view.list[2].date
    /\ last.view.list[1].id # last.view.list[2].id

\* The amounts of a record sequence added up from its end; a stored null
\* (an amount that was not a number) adds nothing.
RECURSIVE SumOfAmounts(_)
SumOfAmounts(records) ==
    IF records = <<>> THEN 0
    ELSE SumOfAmounts(SubSeq(records, 1, Len(records) - 1))
             + (IF records[Len(records)].amount.t = "number"
                THEN records[Len(records)].amount.v ELSE 0)

Costing(n) == [NoRecord EXCEPT !.amount = Num(n)]

\* C14: the rendered total is the sum of the amounts of the rendered
\* records, 0 for none; amounts 100, 50 and 30 total 180.
C14_TotalIsSum ==
    /\ last.view.shown => last.view.total = Num(SumOfAmounts(last.view.list))
    /\ calculateTotal(<<>>) = Num(0)
    /\ calculateTotal(<< Costing(100), Costing(50), Costing(30) >>) = Num(180)

\* Two records, of 100 and of 7, are listed with the total 107.
C14_Witness ==
    /\ last.view.shown
    /\ Len(last.view.list) = 2
    /\ last.view.list[1].amount = Num(100)
    /\ last.view.list[2].amount = Num(7)
    /\ last.view.total = Num(107)

\* The records of a sequence that carry a key in a field.
RECURSIVE Keyed(_, _, _)
Keyed(records, field, key) ==
    IF records = <<>> THEN <<>>
    ELSE IF Head(records)[field] = key
         THEN << Head(records) >> \o Keyed(Tail(records), field, key)
         ELSE Keyed(Tail(records), field, key)

\* Where a key is first met in a record sequence.
FirstMet(records, field, key) ==
    CHOOSE i \in 1..Len(records) :
        /\ records[i][field] = key
        /\ \A j \in 1..(i - 1) : records[j][field] # key

RECURSIVE SumOfEntries(_)
SumOfEntries(entries) ==
    IF entries = <<>> THEN 0
    ELSE entries[1].sum.v + SumOfEntries(Tail(entries))

\* A presented summary of a record sequence by a field: one entry for each
\* key that occurs, its sum the sum of the amounts under the key, the sums
\* adding up to the total, the entries in descending order of sum and, of
\* equal sums, in the order the keys are first met.
SummaryOf(entries, records, field) ==
    /\ { entries[i].key : i \in 1..Len(entries) }
           = { records[i][field] : i \in 1..Len(records) }
    /\ \A i, j \in 1..Len(entries) : entries[i].key = entries[j].key => i = j
    /\ \A i \in 1..Len(entries) :
           entries[i].sum = Num(SumOfAmounts(Keyed(records, field, entries[i].key)))
    /\ Num(SumOfEntries(entries)) = calculateTotal(records)
    /\ \A i, j \in 1..Len(entries) :
           i < j =>
               \/ entries[i].sum.v > entries[j].sum.v
               \/ /\ entries[i].sum.v = entries[j].sum.v
                  /\ FirstMet(records, field, entries[i].key)
                         < FirstMet(records, field, entries[j].key)

\* C15: the category summary and the payment method summary a handler
\* renders map each key that occurs in the rendered records, and no other,
\* to the sum of the amounts under it, their values add up to the rendered
\* total, and they are presented in descending order of sum, keys of equal
\* sums in the order they are first met.
C15_SummariesPresented ==
    last.view.shown =>
        /\ SummaryOf(last.view.byCategory, last.view.list, "category")
        /\ SummaryOf(last.view.byPaymentMethod, last.view.list, "paymentMethod")

StoredCategories == getStorageData(localStorage, "categories", <<>>)

\* A name without the blanks before its first and after its last other
\* character.
Stripped(name) ==
    LET inked == { i \in 1..Len(name) : name[i] # " " }
    IN  IF inked = {} THEN <<>>
        ELSE SubSeq(name, CHOOSE i \in inked : \A j \in inked : i <= j,
                          CHOOSE i \in inked : \A j \in inked : i >= j)

\* C16: addCategory returns false and leaves the store as it is when the
\* name is empty, all blanks, or equal after trimming to a stored name;
\* otherwise it returns true and the trimmed name is appended to the stored
\* categories.
C16_AddCategory ==
    [][last'.op = "addCategory" =>
          IF \/ Stripped(last'.name) = <<>>
             \/ \E i \in 1..Len(StoredCategories) :
                    StoredCategories[i] = Stripped(last'.name)
          THEN /\ last'.ret = RetFalse
               /\ localStorage' = localStorage
          ELSE /\ last'.ret = RetTrue
               /\ StoredCategories' = StoredCategories \o << Stripped(last'.name) >>
               /\ \A key \in StorageKeys \ { "categories" } :
                      localStorage'[key] = localStorage[key]]_vars

\* A name typed between blanks was added, trimmed, behind the seeded names.
C16_Witness ==
    /\ last.op = "addCategory"
    /\ last.name = << " ", "7", " " >>
    /\ last.ret = RetTrue
    /\ StoredCategories = DefaultCategories \o << Seven >>

\* C17: deleteCategory asks for a confirmation exactly when a stored record
\* carries the name; asked and answered no, it returns false and leaves the
\* store as it is; asked and answered yes, or not asked, it returns true and
\* the name is removed from the stored categories, the others keeping their
\* order.
C17_DeleteCategory ==
    [][last'.op = "deleteCategory" =>
          /\ last'.asked = (\E i \in 1..Len(StoredRecords) :
                                StoredRecords[i].category = last'.name)
          /\ IF last'.asked /\ ~last'.confirmed
             THEN /\ last'.ret = RetFalse
                  /\ localStorage' = localStorage
             ELSE /\ last'.ret = RetTrue
                  /\ StoredCategories'
                         = SelectSeq(StoredCategories, LAMBDA c : c # last'.name)
                  /\ \A key \in StorageKeys \ { "categories" } :
                         localStorage'[key] = localStorage[key]]_vars

\* A category in use was removed after the confirmation, the others are
\* stored in their order.
C17_Witness ==
    /\ last.op = "deleteCategory"
    /\ last.name = Kotsu
    /\ last.asked
    /\ last.confirmed
    /\ last.ret = RetTrue
    /\ \E i \in 1..Len(StoredRecords) : StoredRecords[i].category = Kotsu
    /\ StoredCategories = << Shokuhi, Konetsuhi, Sonota >>

\* The value initializeData seeds a namespace with.
Seeded(key) ==
    CASE key = "records" -> <<>>
      [] key = "categories" -> DefaultCategories
      [] key = "filters" -> DefaultFilters

\* C18: a page load (initializeData) gives the default to each of the
\* namespaces records, categories and filters that holds no persisted value
\* and leaves every persisted value as it is, and running initializeData
\* once more changes nothing; the full reset leaves no record, the default
\* categories and the default filter, whatever was stored before.
C18_SeedAndReset ==
    [][/\ last'.op = "init" =>
             /\ \A key \in { "records", "categories", "filters" } :
                    localStorage'[key] =
                        IF localStorage[key].has THEN localStorage[key]
                        ELSE [has |-> TRUE, val |-> Seeded(key)]
             /\ \A key \in { "gasUrl", "spreadsheetEnabled" } :
                    localStorage'[key] = localStorage[key]
             /\ initializeData(localStorage').storage = localStorage'
       /\ last'.op = "resetAll" =>
             /\ \A key \in { "records", "categories", "filters" } :
                    localStorage'[key] = [has |-> TRUE, val |-> Seeded(key)]
             /\ getFilteredRecords(localStorage') = <<>>
             /\ getCategories(localStorage') = DefaultCategories]_vars

\* A page was loaded over a persisted record, a persisted fifth category and
\* a persisted filter, and they are still stored.
C18_Witness ==
    /\ last.op = "init"
    /\ Len(StoredRecords) = 1
    /\ StoredCategories = DefaultCategories \o << Seven >>
    /\ StoredFilters = [DefaultFilters EXCEPT !.paymentMethod = Card]

\* A record is among those a reader of the store is given.
Readable(ls, record) ==
    /\ Occurrences(getStorageData(ls, "records", <<>>), record) > 0
    /\ Occurrences(getFilteredRecords(ls), record) > 0

\* C19: when addExpense, updateExpense or deleteExpense has sent its mirror
\* call, the local store already holds the new state and every reader gets
\* it, while the handler still awaits the call and has rendered nothing; the
\* end of the call, served or failed, to its handler or to a page that is
\* gone, changes nothing in the store, and neither does a reload of the page
\* or a push while calls are pending.
C19_StoredBeforeSent ==
    [][/\ (last'.op \in LocalMutations /\ last'.sent) =>
             /\ pending' = Append(pending, pending'[Len(pending')])
             /\ pending'[Len(pending')].live
             /\ pending'[Len(pending')].op = last'.op
             /\ ~last'.view.shown
             /\ last'.op = "addExpense" =>
                    /\ Len(StoredRecords') = Len(StoredRecords) + 1
                    /\ StoredRecords'[Len(StoredRecords')] = JSONRecord(last'.ret.rec)
                    /\ Readable(localStorage', JSONRecord(last'.ret.rec))
             /\ last'.op = "updateExpense" =>
                    /\ StoredRecords'[findIndex(StoredRecords, last'.id)]
                           = JSONRecord(last'.ret.rec)
                    /\ Readable(localStorage', JSONRecord(last'.ret.rec))
             /\ last'.op = "deleteExpense" =>
                    \A r \in Range(StoredRecords') \cup Range(getFilteredRecords(localStorage')) :
                        r.id # last'.id
       /\ (last'.op \in { "settled", "served" } /\ last'.of \in LocalMutations) =>
             localStorage' = localStorage
       /\ last'.op \in { "init", "syncToSpreadsheet" } =>
             StoredRecords' = StoredRecords]_vars

\* An addition awaits its mirror call: its record is stored and listed, the
\* sheet has not got it.
C19_Witness ==
    /\ last.op = "addExpense"
    /\ last.sent
    /\ Len(pending) > 0
    /\ pending[Len(pending)].live
    /\ pending[Len(pending)].req.action = "add"
    /\ Readable(localStorage, JSONRecord(last.ret.rec))
    /\ findRow(sheet, last.ret.rec.id) = 0

\* The stored records after a mutation of them, given the call made.
Mutated(records, call) ==
    CASE call.op = "addExpense" -> records \o << JSONRecord(call.ret.rec) >>
      [] call.op = "updateExpense" ->
            IF \A i \in 1..Len(records) : records[i].id # call.id
            THEN records
            ELSE [i \in 1..Len(records) |->
                     IF /\ records[i].id = call.id
                        /\ \A j \in 1..(i - 1) : records[j].id # call.id
                     THEN JSONRecord(call.ret.rec)
                     ELSE records[i]]
      [] call.op = "deleteExpense" ->
            SelectSeq(records, LAMBDA r : r.id # call.id)

\* C20: however the handlers of additions, updates and deletions and the
\* ends of their pending mirror calls interleave, each handler changes the
\* stored records in one step from what is stored when it starts, and the
\* end of a call changes nothing: the stored records are those the mutations
\* give applied one after the other in the order they started.
C20_AppliedInStartOrder ==
    [][/\ last'.op \in LocalMutations =>
             StoredRecords' = Mutated(StoredRecords, last')
       /\ (last'.op \in { "settled", "served" } /\ last'.of \in LocalMutations) =>
             StoredRecords' = StoredRecords]_vars

\* An update started while the addition of its record awaits its mirror call:
\* both handlers are pending and the store holds the updated record.
C20_Witness ==
    /\ Len(pending) = 2
    /\ pending[1].live /\ pending[1].op = "addExpense"
    /\ pending[2].live /\ pending[2].op = "updateExpense"
    /\ pending[1].ret.rec.id = pending[2].ret.rec.id
    /\ pending[1].ret.rec # pending[2].ret.rec
    /\ StoredRecords = << JSONRecord(pending[2].ret.rec) >>

\* The records a GET of the sheet would return.
RemoteRecords == rowsToRecords(sheet, 2)

\* C21: from a sheet that holds the records of the store, their ids
\* distinct, with every mirror call delivered in the order of sending and
\* answered, once no call is pending after any additions, updates and
\* deletions the records of the sheet are, as a set, the stored records.
C21_MirrorEqualsLocal ==
    pending = <<>> => Range(RemoteRecords) = Range(StoredRecords)

\* C22: addExpense, updateExpense and deleteExpense send a mirror call only
\* when they changed the stored records: none for an update or a deletion of
\* an id that no stored record carries, none when the write to the storage
\* failed.
C22_MirrorOnlyAfterChange ==
    [][(last'.op \in LocalMutations /\ last'.sent) =>
          StoredRecords' # StoredRecords]_vars

\* The endpoint has just served, without an error of the service itself, an
\* update or a deletion.
ServedChange ==
    /\ last.op \in { "settled", "served" }
    /\ last.outcome \in { "ok", "replyLost" }
    /\ served.req.method = "POST"
    /\ served.req.action \in { "update", "delete" }

\* The id an update or a deletion names.
ServedId ==
    IF served.req.action = "update" THEN served.req.record.id ELSE served.req.id

\* C23: on the sheet an update or a deletion of an id that no row carries is
\* answered success=false and changes no row, and the bridge function
\* returns false; of an id that is there, an update writes the six fields of
\* the record into the first row of the id and a deletion removes that row,
\* every other row staying as it is and where it is relative to the others.
C23_RemoteUpdateDelete ==
    [][ServedChange' =>
          LET rows == { i \in 2..Len(sheet) : sheet[i][1] = ServedId' }
              row == CHOOSE i \in rows : \A j \in rows : i <= j
              record == served'.req.record
          IN  IF rows = {}
              THEN /\ ~served'.response.success
                   /\ sheet' = sheet
                   /\ last'.op = "settled" => last'.bridge = BridgeFalse
              ELSE /\ served'.response.success
                   /\ served'.req.action = "update" =>
                          sheet' = [sheet EXCEPT ![row] =
                                       << record.id, record.date, record.category,
                                          record.paymentMethod, record.amount,
                                          record.memo >>]
                   /\ served'.req.action = "delete" =>
                          /\ Len(sheet') = Len(sheet) - 1
                          /\ \A i \in 1..Len(sheet') :
                                 sheet'[i] = IF i < row THEN sheet[i] ELSE sheet[i + 1]]_vars

\* An update of a record the sheet does not hold was answered success=false
\* and its bridge call returned false.
C23_Witness ==
    /\ ServedChange
    /\ last.op = "settled"
    /\ last.outcome = "ok"
    /\ served.req.action = "update"
    /\ ~served.response.success
    /\ last.bridge = BridgeFalse
    /\ findRow(sheet, ServedId) = 0

\* The startup pull of the page has resumed.
PullResumed ==
    /\ last.op = "settled"
    /\ last.of = "loadFromSpreadsheet"

\* C24: a page load with the flag on and an endpoint stored sends one GET
\* and leaves the page without handlers until the pull resumes: until then
\* no addition, update or deletion runs and the stored records stay; the
\* pull resumed, the stored records are the fetched ones, also when there are
\* none, or, when nothing was fetched, what they were.  A page load with the
\* flag off or no endpoint sends nothing and leaves the stored records.
C24_StartupPull ==
    [][/\ last'.op = "init" =>
             /\ StoredRecords' = StoredRecords
             /\ IF SPREADSHEET_ENABLED' /\ GAS_WEB_APP_URL' # <<>>
                THEN /\ last'.sent
                     /\ fetchCount' = fetchCount + 1
                     /\ pending'[Len(pending')].live
                     /\ pending'[Len(pending')].req.method = "GET"
                     /\ page' = "loading"
                ELSE /\ ~last'.sent
                     /\ fetchCount' = fetchCount
                     /\ Len(pending') = Len(pending)
                     /\ page' = "ready"
       /\ (page = "loading" /\ ~PullResumed') =>
             /\ last'.op \notin LocalMutations
             /\ StoredRecords' = StoredRecords
       /\ PullResumed' =>
             /\ page = "loading"
             /\ page' = "ready"
             /\ IF last'.bridge.t = "records"
                THEN StoredRecords' = last'.bridge.recs
                ELSE /\ last'.bridge = BridgeNull
                     /\ localStorage' = localStorage]_vars

\* A pull that fetched nothing resumed over a store that holds a record.
C24_Witness ==
    /\ PullResumed
    /\ last.bridge = BridgeNull
    /\ Len(StoredRecords) = 1
    /\ page = "ready"

\* The operations that change the records or the categories.
StoreChanges == LocalMutations \cup { "addCategory", "deleteCategory" }

\* C25: when the storage is full and an addition, an update, a deletion or
\* a category change gets as far as its write, the storage keeps what it
\* held, the alert of the failed write is shown, and the operation does not
\* return what it returns for a change made: no record, not true.
C25_FailedWriteReported ==
    [][(storageFull /\ last'.op \in StoreChanges
                    /\ Writes(last'.op, last'.ret)) =>
          /\ localStorage' = localStorage
          /\ last'.alerted
          /\ last'.ret.t \notin { "record", "true" }]_vars

\* C26: whatever additions and deletions of categories, page loads and
\* resets have run, no name is stored twice, no stored name is empty or all
\* blanks, and the names are stored in the order of their insertion: a step
\* keeps the names it keeps in their order and puts the names it inserts
\* behind them; a reset inserts the seeded names anew.
C26_CategoriesAreAnOrderedSet ==
    [][/\ \A i, j \in 1..Len(StoredCategories') :
             StoredCategories'[i] = StoredCategories'[j] => i = j
       /\ \A i \in 1..Len(StoredCategories') :
             \E k \in 1..Len(StoredCategories'[i]) : StoredCategories'[i][k] # " "
       /\ IF last'.op = "resetAll"
          THEN StoredCategories' = DefaultCategories
          ELSE LET kept == SelectSeq(StoredCategories,
                                     LAMBDA c : c \in Range(StoredCategories'))
               IN  /\ SubSeq(StoredCategories', 1, Len(kept)) = kept
                   /\ \A i \in (Len(kept) + 1)..Len(StoredCategories') :
                          StoredCategories'[i] \notin Range(StoredCategories)]_vars

\* A seeded name was deleted and, after a new name, added again: it is
\* stored last.
C26_Witness ==
    /\ last.op = "addCategory"
    /\ last.ret = RetTrue
    /\ StoredCategories = << Shokuhi, Konetsuhi, Sonota, Seven, Kotsu >>

\* The rows of the sheet below the first that carry an id, as records.
RowsWithId ==
    LET rows == SelectSeq(Tail(sheet), LAMBDA row : row[1] # <<>>)
    IN  [i \in 1..Len(rows) |->
            [id |-> rows[i][1], date |-> rows[i][2], category |-> rows[i][3],
             paymentMethod |-> rows[i][4], amount |-> rows[i][5],
             memo |-> rows[i][6]]]

\* The endpoint has just answered a GET without an error of its own.
ServedGet ==
    /\ last.op \in { "settled", "served" }
    /\ last.outcome \in { "ok", "replyLost" }
    /\ served.req.method = "GET"

\* C27: whatever additions, updates, deletions and syncs the endpoint has
\* served, the first row of the sheet is the header row, the records are in
\* the rows below it, and a GET answers with one record for each row below
\* the first that carries an id, in the order of the rows: never the
\* header, never a row less.
C27_HeaderKept ==
    /\ Len(sheet) >= 1
    /\ sheet[1] = HeaderRow
    /\ ServedGet =>
          /\ served.response.success
          /\ served.response.records = RowsWithId
          /\ Len(served.response.records) = Len(sheet) - 1

\* A GET was answered with the one record left below the header after a
\* POST had been served.
C27_Witness ==
    /\ ServedGet
    /\ served.before.req.method = "POST"
    /\ served.before.response.success
    /\ Len(sheet) = 2
    /\ Len(served.response.records) = 1

\* The persisted sync configuration, as initializeData reads it.
StoredUrl == getStorageData(localStorage, "gasUrl", <<>>)

StoredEnabled == getStorageData(localStorage, "spreadsheetEnabled", FALSE)

\* C28: no step but a save of the settings changes the endpoint or the
\* enabled flag, in memory or persisted, whatever bridge calls run and
\* however they end; after a save the endpoint and the flag in memory are
\* the persisted ones.
C28_ConfigChangesOnlyOnSave ==
    [][/\ last'.op # "saveSettings" =>
             /\ GAS_WEB_APP_URL' = GAS_WEB_APP_URL
             /\ SPREADSHEET_ENABLED' = SPREADSHEET_ENABLED
             /\ StoredUrl' = StoredUrl
             /\ StoredEnabled' = StoredEnabled
       /\ last'.op = "saveSettings" =>
             /\ GAS_WEB_APP_URL' = StoredUrl'
             /\ SPREADSHEET_ENABLED' = StoredEnabled']_vars

\* The namespaces of the storage other than one are what they were, and so
\* are the endpoint and the flag in memory.
OnlyChanges(key) ==
    /\ \A other \in StorageKeys \ { key } : localStorage'[other] = localStorage[other]
    /\ GAS_WEB_APP_URL' = GAS_WEB_APP_URL
    /\ SPREADSHEET_ENABLED' = SPREADSHEET_ENABLED

\* C29: an addition, an update, a deletion and the pull that installs the
\* fetched records change the records only: the categories, the filter and
\* the sync configuration stay; an addition and a deletion of a category,
\* also of one that records carry, change the categories only: every record
\* stays, its category field included; saving a filter changes the filter
\* only; rendering the list, the total and the summaries, which each of
\* these handlers ends with, changes nothing beyond that.
C29_OwnStoreOnly ==
    [][/\ last'.op \in LocalMutations => OnlyChanges("records")
       /\ (last'.op \in { "settled", "served" } /\ last'.of \in LocalMutations) =>
             /\ OnlyChanges("records")
             /\ StoredRecords' = StoredRecords
       /\ PullResumed' => OnlyChanges("records")
       /\ last'.op \in { "addCategory", "deleteCategory" } =>
             /\ OnlyChanges("categories")
             /\ StoredRecords' = StoredRecords
       /\ last'.op \in { "applyFilter", "resetFilter" } =>
             OnlyChanges("filters")]_vars

\* A category that a stored record carries was deleted: the record is stored
\* as before, with the category.
C29_Witness ==
    /\ last.op = "deleteCategory"
    /\ last.asked /\ last.confirmed
    /\ last.ret = RetTrue
    /\ ~includes(StoredCategories, Shokuhi)
    /\ \E i \in 1..Len(StoredRecords) : StoredRecords[i].category = Shokuhi

====
